---- MODULE Spec2Model ----
(***************************************************************************)
(* Stewart acid-base calculator: computeAll (compute.js), the physiology   *)
(* formulas (physiology.js), parse (helpers.js), the unit helpers          *)
(* (units.js) and the stack builder of renderGamblegram (gamblegram.js).   *)
(*                                                                         *)
(* Numbers.  A JavaScript number that the program stores or shows is a     *)
(* fixed-point integer in units of 1/SCALE (0.0001 mEq/L, pH unit, mmHg,   *)
(* g/dL); NaN is the value NaN below.  The physiology formulas are         *)
(* evaluated in a small decimal floating-point arithmetic (six significant *)
(* digits, the exponent range of an IEEE double, with Infinity and NaN),   *)
(* so that Math.pow overflowing to Infinity and Infinity/Infinity = NaN    *)
(* behave as in the program.                                               *)
(*                                                                         *)
(* An operator that uses an argument several times first binds it, as in   *)
(* CHOOSE r \in {body : x \in {x0}} : TRUE, so that the argument is        *)
(* evaluated once.                                                         *)
(***************************************************************************)
EXTENDS Integers, Sequences, FiniteSets, TLC

SCALE == 10^4

\* Number.NaN, as parse() returns it for a blank or non-numeric field.
NaN == -(2^30)
\* Infinity, -Infinity as a formula can return them.
PosInf == 2^30
NegInf == -(2^30) - 1

IsFinite(x) == x \notin {NaN, PosInf, NegInf}

\* JavaScript (x || 0): NaN and 0 are falsy.
OrZero(x) == IF x = NaN THEN 0 ELSE x

Abs(x) == IF x < 0 THEN -x ELSE x
Max(a, b) == IF a >= b THEN a ELSE b

\* IEEE addition and subtraction on the stored numbers.
Neg(a) == IF a = NaN THEN NaN ELSE IF a = PosInf THEN NegInf
          ELSE IF a = NegInf THEN PosInf ELSE -a
Add(a, b) ==
  IF a = NaN \/ b = NaN THEN NaN
  ELSE IF a \in {PosInf, NegInf} THEN (IF b \in {PosInf, NegInf} \ {a} THEN NaN ELSE a)
  ELSE IF b \in {PosInf, NegInf} THEN b
  ELSE a + b
Sub(a, b) == Add(a, Neg(b))

(***************************************************************************)
(* Decimal floating point: [k, s, m, e] is s * m * 10^e with               *)
(* 10^5 <= m < 10^6, or zero, or an infinity or a NaN.                     *)
(***************************************************************************)
FZero == [k |-> "fin", s |-> 1, m |-> 0, e |-> 0]
FNaN == [k |-> "nan", s |-> 1, m |-> 0, e |-> 0]
FInf(sg) == [k |-> "inf", s |-> sg, m |-> 0, e |-> 0]

\* The largest double is 1.79769e308 (beyond it: Infinity); below the
\* smallest subnormal, 4.9e-324, a result is 0.
RECURSIVE Norm(_, _, _)
Norm(sg0, m0, e0) ==
  CHOOSE r \in {
    IF m = 0 THEN FZero
    ELSE IF m >= 10^6 THEN Norm(sg, (m + 5) \div 10, e + 1)
    ELSE IF m < 10^5 THEN Norm(sg, m * 10, e - 1)
    ELSE IF e + 5 > 308 \/ (e + 5 = 308 /\ m > 179769) THEN FInf(sg)
    ELSE IF e + 5 < -324 THEN FZero
    ELSE [k |-> "fin", s |-> sg, m |-> m, e |-> e]
    : sg \in {sg0}, m \in {m0}, e \in {e0}} : TRUE

FNum(n, e) == Norm(IF n < 0 THEN -1 ELSE 1, Abs(n), e)
FOne == FNum(1, 0)
FNeg(a0) == CHOOSE r \in {[a EXCEPT !.s = -a.s] : a \in {a0}} : TRUE
FIsZero(a) == a.k = "fin" /\ a.m = 0

FMul(a0, b0) ==
  CHOOSE r \in {
    IF a.k = "nan" \/ b.k = "nan" THEN FNaN
    ELSE IF a.k = "inf" \/ b.k = "inf"
      THEN IF FIsZero(a) \/ FIsZero(b) THEN FNaN ELSE FInf(a.s * b.s)
    ELSE IF a.m = 0 \/ b.m = 0 THEN FZero
    ELSE LET X == (a.m \div 1000) * b.m
             Y == (a.m % 1000) * b.m
         IN Norm(a.s * b.s, (X + Y \div 1000) \div 100, a.e + b.e + 5)
    : a \in {a0}, b \in {b0}} : TRUE

FDiv(a0, b0) ==
  CHOOSE r \in {
    IF a.k = "nan" \/ b.k = "nan" THEN FNaN
    ELSE IF a.k = "inf" THEN IF b.k = "inf" THEN FNaN ELSE FInf(a.s * b.s)
    ELSE IF b.k = "inf" THEN FZero
    ELSE IF b.m = 0 THEN IF a.m = 0 THEN FNaN ELSE FInf(a.s * b.s)
    ELSE IF a.m = 0 THEN FZero
    ELSE LET q1 == (a.m * 1000) \div b.m
             r1 == (a.m * 1000) % b.m
         IN Norm(a.s * b.s, q1 * 1000 + (r1 * 1000) \div b.m, a.e - b.e - 6)
    : a \in {a0}, b \in {b0}} : TRUE

\* hi.e >= lo.e, both finite and non-zero; three guard digits.
FAddOrdered(hi, lo) ==
  LET d == hi.e - lo.e
      l == IF d > 9 THEN 0 ELSE (lo.m * 1000) \div (10^d)
      t == hi.s * hi.m * 1000 + lo.s * l
  IN Norm(IF t < 0 THEN -1 ELSE 1, Abs(t), hi.e - 3)

FAdd(a0, b0) ==
  CHOOSE r \in {
    IF a.k = "nan" \/ b.k = "nan" THEN FNaN
    ELSE IF a.k = "inf"
      THEN IF b.k = "inf" /\ b.s # a.s THEN FNaN ELSE a
    ELSE IF b.k = "inf" THEN b
    ELSE IF a.m = 0 THEN b
    ELSE IF b.m = 0 THEN a
    ELSE IF a.e >= b.e THEN FAddOrdered(a, b) ELSE FAddOrdered(b, a)
    : a \in {a0}, b \in {b0}} : TRUE

FSub(a, b) == FAdd(a, FNeg(b))

\* A stored number (units of 1/SCALE) as a float, and back (to nearest).
FromFix(v) ==
  IF v = NaN THEN FNaN
  ELSE IF v = PosInf THEN FInf(1)
  ELSE IF v = NegInf THEN FInf(-1)
  ELSE FNum(v, -4)

ToFix(a0) ==
  CHOOSE r \in {
    IF a.k = "nan" THEN NaN
    ELSE IF a.k = "inf" THEN (IF a.s = 1 THEN PosInf ELSE NegInf)
    ELSE IF a.m = 0 THEN 0
    ELSE LET x == a.e + 4
         IN IF x >= 0 THEN a.s * a.m * 10^x
            ELSE IF x < -7 THEN 0
            ELSE a.s * ((a.m + (10^(-x)) \div 2) \div 10^(-x))
    : a \in {a0}} : TRUE

(***************************************************************************)
(* Math.pow(10, x), x in units of 10^-5, by the decimal digits of the      *)
(* fractional part of x.                                                   *)
(***************************************************************************)
T1 == <<100000, 125893, 158489, 199526, 251189, 316228, 398107, 501187, 630957, 794328>>
T2 == <<100000, 102329, 104713, 107152, 109648, 112202, 114815, 117490, 120226, 123027>>
T3 == <<100000, 100231, 100462, 100693, 100925, 101158, 101391, 101625, 101859, 102094>>
T4 == <<100000, 100023, 100046, 100069, 100092, 100115, 100138, 100161, 100184, 100207>>
T5 == <<100000, 100002, 100005, 100007, 100009, 100012, 100014, 100016, 100018, 100021>>

Pow10(x0) ==
  CHOOSE r \in {
    LET n == x \div 10^5
        f == x % 10^5
        d1 == f \div 10^4
        d2 == (f \div 1000) % 10
        d3 == (f \div 100) % 10
        d4 == (f \div 10) % 10
        d5 == f % 10
    IN CHOOSE q \in {
         IF p.k = "fin" /\ p.m # 0 THEN Norm(p.s, p.m, p.e + n) ELSE p
         : p \in {FMul(FMul(FMul(FNum(T1[d1 + 1], -5), FNum(T2[d2 + 1], -5)),
                            FMul(FNum(T3[d3 + 1], -5), FNum(T4[d4 + 1], -5))),
                       FNum(T5[d5 + 1], -5))}} : TRUE
    : x \in {x0}} : TRUE

\* A float as an exponent for Pow10 (units of 10^-5).
ToExp(a0) ==
  CHOOSE r \in {
    IF a.m = 0 THEN 0
    ELSE LET x == a.e + 5
         IN IF x >= 0 THEN a.s * a.m * 10^x
            ELSE IF x < -7 THEN 0
            ELSE a.s * ((a.m + (10^(-x)) \div 2) \div 10^(-x))
    : a \in {a0}} : TRUE

\* A stored pH (units of 1/SCALE) minus a constant given in thousandths.
ExpOf(pH, milli) == pH * 10 - milli * 100

(***************************************************************************)
(* physiology.js.  The pH-dependent factor of each formula is tabulated    *)
(* over PhValues, the pH values the model feeds to the form, so that it is *)
(* evaluated once per pH.                                                  *)
(***************************************************************************)
PhValues == {74000, 50000, -200 * SCALE}

RECURSIVE FSum(_)
FSum(fs0) ==
  CHOOSE r \in {IF fs = <<>> THEN FZero ELSE FAdd(FSum(Tail(fs)), Head(fs))
                : fs \in {fs0}} : TRUE

\* n / (1 + Math.pow(10, x))
Titr(n, x) == FDiv(FNum(n, 0), FAdd(FOne, Pow10(x)))

\* Math.pow(10, pH - 6.1)
gasPow == [pH \in PhValues |-> Pow10(ExpOf(pH, 6100))]

hco3FromPHandPco2(pH, pCO2) ==
  ToFix(FMul(FMul(FNum(3, -2), FromFix(pCO2)), gasPow[pH]))

HIS_NB == <<7120, 7220, 7100, 7490, 7010>>
HIS_STD == <<7310, 6750, 6360, 4850, 5760, 6170, 6730, 5820, 5100, 6700, 6200>>

albuminNB(pH) == FMul(FNum(4, -1), FSub(FOne, Titr(1, ExpOf(pH, 6900))))

\* A slip that counts 49 normal lysines instead of 50.
albuminNetPerMol49Lys(pH) ==
  LET NB == ToExp(albuminNB(pH))
      his == FAdd(FSum([i \in 1..Len(HIS_NB) |-> Titr(1, ExpOf(pH, HIS_NB[i]) + NB)]),
                  FSum([i \in 1..Len(HIS_STD) |-> Titr(1, ExpOf(pH, HIS_STD[i]))]))
      lys == FSum(<<Titr(2, ExpOf(pH, 5800)), Titr(2, ExpOf(pH, 6150)),
                    Titr(2, ExpOf(pH, 7510)), Titr(2, ExpOf(pH, 7685)),
                    Titr(1, ExpOf(pH, 7860)), Titr(49, ExpOf(pH, 10300))>>)
      arg == Titr(24, ExpOf(pH, 12500))
      nh2 == Titr(1, ExpOf(pH, 8000))
      acooh == Titr(-1, -ExpOf(pH, 3100))
      aspGlu == Titr(-98, -ExpOf(pH, 3900))
      cys == Titr(-1, -ExpOf(pH, 8500))
      tyr == Titr(-18, -ExpOf(pH, 11700))
  IN FSum(<<tyr, cys, aspGlu, acooh, nh2, arg, lys, his>>)

albuminNetPerMol(pH) ==
  LET NB == ToExp(albuminNB(pH))
      his == FAdd(FSum([i \in 1..Len(HIS_NB) |-> Titr(1, ExpOf(pH, HIS_NB[i]) + NB)]),
                  FSum([i \in 1..Len(HIS_STD) |-> Titr(1, ExpOf(pH, HIS_STD[i]))]))
      lys == FSum(<<Titr(2, ExpOf(pH, 5800)), Titr(2, ExpOf(pH, 6150)),
                    Titr(2, ExpOf(pH, 7510)), Titr(2, ExpOf(pH, 7685)),
                    Titr(1, ExpOf(pH, 7860)), Titr(50, ExpOf(pH, 10300))>>)
      arg == Titr(24, ExpOf(pH, 12500))
      nh2 == Titr(1, ExpOf(pH, 8000))
      acooh == Titr(-1, -ExpOf(pH, 3100))
      aspGlu == Titr(-98, -ExpOf(pH, 3900))
      cys == Titr(-1, -ExpOf(pH, 8500))
      tyr == Titr(-18, -ExpOf(pH, 11700))
  IN FSum(<<tyr, cys, aspGlu, acooh, nh2, arg, lys, his>>)

netPerMol == [pH \in PhValues |-> albuminNetPerMol(pH)]

albuminCharge(albGperL, pH) ==
  LET albMM == FDiv(FromFix(albGperL), FNum(665, -1))
  IN ToFix(FMul(FNeg(albMM), netPerMol[pH]))

phosphateZ(pH) ==
  LET K1 == Pow10(-191500)
      K2 == Pow10(-666000)
      K3 == Pow10(-1178000)
      H == Pow10(-(pH * 10))
      K1HH == FMul(FMul(K1, H), H)
      K1K2 == FMul(K1, K2)
      K1K2H == FMul(K1K2, H)
      K1K2K3 == FMul(K1K2, K3)
      d == FAdd(FAdd(FAdd(FMul(FMul(H, H), H), K1HH), K1K2H), K1K2K3)
      n == FAdd(FAdd(K1HH, FMul(FMul(FMul(FNum(2, 0), K1), K2), H)),
                FMul(FMul(FMul(FNum(3, 0), K1), K2), K3))
  IN FDiv(n, d)

z == [pH \in PhValues |-> phosphateZ(pH)]

phosphateCharge(phos, pH) == ToFix(FMul(FromFix(phos), z[pH]))

(***************************************************************************)
(* The form.  Every parameter has a numeric <input id> and/or a            *)
(* <select id-picker>; a node's value is a number, Empty ("") or the node  *)
(* is not in the document (NoNode).                                        *)
(***************************************************************************)
Empty == -(2^30) - 2
NoNode == -(2^30) - 3

IonIds == {"na", "k", "ica", "mg", "cl", "lac", "alb", "phos", "ph", "pco2"}
Ids == IonIds \cup {"hco3"}
UnitIds == {"mg", "ica", "lac", "phos"}

VARIABLES
  input,        \* [Ids -> value of <input id>]
  picker,       \* [Ids -> value of <select id-picker>]
  unit,         \* [UnitIds -> "si" | "mgdl"], the <select id-unit>
  useBmp,       \* checkbox use-bmp-hco3
  hco3Disabled, \* the disabled attribute of <input id="hco3">
  res,          \* what computeAll last computed and wrote to the results panel
  gg,           \* what renderGamblegram last built
  svg,          \* the rect.gg-rect / text.gg-label pairs of #gg-svg, in document order
  pending,      \* the animation-frame callbacks requested and not yet run or cancelled
  ggAF,         \* window._ggAF, 0 when null or undefined
  renders,      \* the calls of renderGamblegram, one per computeAll(), counted
                \* where their number is bounded; each call adds one touchstart
                \* listener to #gg-svg and one pointerdown listener to document
  listeners,    \* [Ids -> change listeners populatePicker has added to the
                \* picker], counted where their number is bounded
  timeouts,     \* the timers set and not yet run or cleared: [id, kind, left]
  inputTimer,   \* _inputTimer, 0 while undefined
  resizeTimer,  \* _resizeTimer, 0 while undefined
  active,       \* the keys of the rect.gg-rect that carry the class "active"
  focused,      \* #gg-svg carries the class "focused"
  ttVisible,    \* #gg-tooltip carries the class "visible"
  over,         \* the key of the rectangle the mouse pointer has entered
  rectFocus     \* the key of the rectangle that has the keyboard focus

timerVars == <<timeouts, inputTimer, resizeTimer>>
pointerVars == <<active, focused, ttVisible, over, rectFocus>>
vars == <<input, picker, unit, useBmp, hco3Disabled, res, gg, svg, pending, ggAF,
          renders, listeners, timerVars, pointerVars>>

\* No rectangle.
NoKey == "none"

\* parseFloat(node.value), NaN unless finite.
parseFloat(v) == IF v \in {Empty, NoNode, NaN, PosInf, NegInf} THEN NaN ELSE v

\* helpers.js parse(id): the input if it has a value, else the picker.
parse(inp, pick, id) ==
  LET node == IF inp[id] # NoNode
                THEN IF inp[id] # Empty THEN inp[id]
                     ELSE IF pick[id] # NoNode THEN pick[id] ELSE inp[id]
                ELSE pick[id]
  IN parseFloat(node)

(***************************************************************************)
(* units.js                                                                *)
(***************************************************************************)
\* The conversions multiply and divide by 10 / MW; they are computed as
\* exact fractions [n, d] in lowest terms, d = 0 standing for NaN.
RECURSIVE GCD(_, _)
GCD(a, b) == IF b = 0 THEN a ELSE GCD(b, a % b)

Rat(n0, d0) ==
  LET g == GCD(Abs(n0), d0)
  IN [n |-> n0 \div g, d |-> d0 \div g]
RatNaN == [n |-> 0, d |-> 0]
RatOfFix(x) == IF IsFinite(x) THEN Rat(x, SCALE) ELSE RatNaN
RatMul(a, b) ==
  IF a.d = 0 \/ b.d = 0 THEN RatNaN
  ELSE LET g1 == GCD(Abs(a.n), b.d)
           g2 == GCD(Abs(b.n), a.d)
       IN Rat((a.n \div g1) * (b.n \div g2), (a.d \div g2) * (b.d \div g1))
RatDiv(a, b) ==
  IF b.d = 0 \/ b.n = 0 THEN RatNaN
  ELSE RatMul(a, IF b.n < 0 THEN [n |-> -b.d, d |-> -b.n] ELSE [n |-> b.d, d |-> b.n])
\* a.toFixed(decimals), read back as a number in units of 1 / SCALE
RatFixed(a, decimals) ==
  IF a.d = 0 THEN NaN
  ELSE LET m == Abs(a.n)
           r == ((m % a.d) * 10^decimals * 2 + a.d) \div (2 * a.d)
           x == (m \div a.d) * SCALE + r * 10^(4 - decimals)
       IN IF a.n < 0 THEN -x ELSE x
RatToFix(a) == RatFixed(a, 4)

MG_FACTOR == Rat(10 * 1000, 24305)
CA_FACTOR == Rat(10 * 100, 4008)
LAC_FACTOR == Rat(10 * 100, 8907)
PO4_FACTOR == Rat(10 * 100, 3097)

Factor(id) ==
  CASE id = "mg" -> MG_FACTOR
    [] id = "ica" -> CA_FACTOR
    [] id = "lac" -> LAC_FACTOR
    [] id = "phos" -> PO4_FACTOR

getIonSI(inp, pick, un, id) ==
  LET raw == parse(inp, pick, id)
      u == IF id \in DOMAIN un THEN un[id] ELSE "si"
  IN IF ~IsFinite(raw) THEN NaN
     ELSE IF u = "mgdl" /\ id \in UnitIds
       THEN RatToFix(RatMul(RatOfFix(raw), Factor(id)))
     ELSE raw

\* A slip that converts to mg/dL with the factor the wrong way round.
siToDisplayMultiplying(id, si, u) ==
  IF si.d = 0 THEN RatNaN
  ELSE IF u = "mgdl" /\ id \in UnitIds THEN RatMul(si, Factor(id))
  ELSE si

\* displayToSI(id, value, unit) and siToDisplay(id, si, unit), on fractions
displayToSI(id, value, u) ==
  IF value.d = 0 THEN RatNaN
  ELSE IF u = "mgdl" /\ id \in UnitIds THEN RatMul(value, Factor(id))
  ELSE value

siToDisplay(id, si, u) ==
  IF si.d = 0 THEN RatNaN
  ELSE IF u = "mgdl" /\ id \in UnitIds THEN RatDiv(si, Factor(id))
  ELSE si

(***************************************************************************)
(* gamblegram.js: renderGamblegram(vals), stack builder and target         *)
(* geometry.                                                               *)
(***************************************************************************)
\* Width used when the page has no .container element (gamblegram.js:144).
ContainerW == 480
ChartW == ContainerW
\* padTop = Math.max(12, Math.round(W * 0.04)); H = Math.round(W * 1.3)
PadTop == Max(12, (ChartW * 4 + 50) \div 100)
ChartH == (ChartW * 13 + 5) \div 10
BaseY == PadTop + ChartH
\* Math.max(10, ...): the minimum extent of a segment.
MinExtent == 10

Seg(key, val) == [k |-> key, v |-> val]

\* Array.sort((a, b) => (b.v || 0) - (a.v || 0)): stable, large to small.
RECURSIVE InsertDesc(_, _)
InsertDesc(x0, sorted0) ==
  CHOOSE r \in {
    IF sorted = <<>> THEN <<x>>
    ELSE IF OrZero(Head(sorted).v) >= OrZero(x.v)
      THEN <<Head(sorted)>> \o InsertDesc(x, Tail(sorted))
    ELSE <<x>> \o sorted
    : x \in {x0}, sorted \in {sorted0}} : TRUE

RECURSIVE SortDesc(_)
SortDesc(arr0) ==
  CHOOSE r \in {
    IF arr = <<>> THEN <<>>
    ELSE InsertDesc(arr[Len(arr)], SortDesc(SubSeq(arr, 1, Len(arr) - 1)))
    : arr \in {arr0}} : TRUE

\* A slip that sorts the whole stack: Unknown is placed by its value.
liftSortingUnknown(arr) == SortDesc(arr)

lift(arr) ==
  LET known == SelectSeq(arr, LAMBDA x : x.k # "Unknown")
      unknown == SelectSeq(arr, LAMBDA x : x.k = "Unknown")
  IN SortDesc(known) \o unknown

\* a.reduce((s, x) => s + (x.v || 0), 0)
RECURSIVE sum(_)
sum(a0) ==
  CHOOSE r \in {
    IF a = <<>> THEN 0 ELSE sum(SubSeq(a, 1, Len(a) - 1)) + OrZero(a[Len(a)].v)
    : a \in {a0}} : TRUE

\* Math.max(10, (item.v / maxStack) * H), in units of 1/SCALE
\* (long division of v * H by maxStack, two decimal digits at a time).
\* A slip that leaves out the minimum extent of 10.
ExtentNoMinimum(v, maxStack) ==
  IF maxStack = 0 \/ v = 0 \/ (v > 0) # (maxStack > 0) THEN 0
  ELSE ((Abs(v) * ChartH) \div Abs(maxStack)) * SCALE

Extent(v, maxStack) ==
  IF maxStack = 0
    THEN (IF v = 0 THEN NaN ELSE IF v > 0 THEN PosInf ELSE MinExtent * SCALE)
  ELSE IF v = 0 \/ (v > 0) # (maxStack > 0) THEN MinExtent * SCALE
  ELSE LET n == Abs(v) * ChartH
           d == Abs(maxStack)
           q0 == n \div d
           r0 == n % d
           q1 == (r0 * 100) \div d
           r1 == (r0 * 100) % d
           q2 == (r1 * 100) \div d
       IN Max(MinExtent * SCALE, q0 * SCALE + q1 * 100 + q2)

\* arr.map(item => { h = ...; y -= h; return {item, ty: y, th: h} }), y from baseY
RECURSIVE Targets(_, _)
Targets(arr0, maxStack0) ==
  CHOOSE r \in {
    IF arr = <<>> THEN <<>>
    ELSE CHOOSE t \in {
           LET y == IF before = <<>> THEN BaseY * SCALE ELSE before[Len(before)].ty
           IN Append(before, [k |-> arr[Len(arr)].k, v |-> arr[Len(arr)].v,
                              ty |-> Sub(y, h), th |-> h])
           : before \in {Targets(SubSeq(arr, 1, Len(arr) - 1), maxStack)},
             h \in {Extent(arr[Len(arr)].v, maxStack)}} : TRUE
    : arr \in {arr0}, maxStack \in {maxStack0}} : TRUE

\* The epsilon 0.0001 of the Unknown segment, in units of 1/SCALE.
UnknownThreshold == 1

\* A slip that drops the epsilon band: SIG = 0 still yields a segment.
unknownSideNoBand(sig) == IF sig >= 0 THEN "anions" ELSE "cations"

\* if (sig > 0.0001) anions.push(...); if (sig < -0.0001) cations.push(...)
unknownSide(sig) ==
  IF sig > UnknownThreshold THEN "anions"
  ELSE IF sig < -UnknownThreshold THEN "cations"
  ELSE "none"

\* A slip that leaves out the floor of 1.
maxStackNoFloor(totalC, totalA) == Max(totalC, totalA)

\* Math.max(totalC, totalA, 1)
maxStackOf(totalC, totalA) == Max(Max(totalC, totalA), 1 * SCALE)

renderGamblegram(vals0) ==
  CHOOSE r \in {
    LET Na == OrZero(vals.Na)
        K == OrZero(vals.K)
        iCa == OrZero(vals.iCa)
        Mg_mmol == OrZero(vals.Mg_mmol)
        Cl == OrZero(vals.Cl)
        Lac == OrZero(vals.Lac)
        HCO3 == OrZero(vals.HCO3)
        albMinus == OrZero(vals.albMinus)
        piMinus == OrZero(vals.piMinus)
        sig == OrZero(vals.sig)
        cations0 == <<Seg("Na", Na), Seg("K", K), Seg("iCa", iCa), Seg("Mg", Mg_mmol)>>
        anions0 == <<Seg("Cl", Cl), Seg("Lactate", Lac), Seg("HCO3", HCO3),
                     Seg("Alb", albMinus), Seg("Phos", piMinus)>>
        anions1 == IF unknownSide(sig) = "anions"
                     THEN Append(anions0, Seg("Unknown", sig)) ELSE anions0
        cations1 == IF unknownSide(sig) = "cations"
                      THEN Append(cations0, Seg("Unknown", Abs(sig))) ELSE cations0
    IN CHOOSE r1 \in {
         CHOOSE r2 \in {
           LET maxStack == maxStackOf(totalC, totalA)
           IN [cations |-> cations, anions |-> anions,
               totalC |-> totalC, totalA |-> totalA, maxStack |-> maxStack,
               cT |-> Targets(cations, maxStack), aT |-> Targets(anions, maxStack),
               unknownEl |->
                 IF sig > UnknownThreshold THEN <<"Unknown anions", sig>>
                 ELSE IF sig < -UnknownThreshold THEN <<"Unknown cations", Abs(sig)>>
                 ELSE <<"Unknown: none", 0>>]
           : totalC \in {sum(cations)}, totalA \in {sum(anions)}} : TRUE
         : cations \in {lift(cations1)}, anions \in {lift(anions1)}} : TRUE
    : vals \in {vals0}} : TRUE

(***************************************************************************)
(* compute.js: computeAll()                                                *)
(***************************************************************************)
\* A slip that truncates to one decimal (Math.floor) instead of rounding.
Round1Floor(x) == IF x = NaN THEN NaN ELSE (x \div 1000) * 1000

\* Math.round(x * 10) / 10
Round1(x) == IF x = NaN THEN NaN ELSE ((x + 500) \div 1000) * 1000

\* x.toFixed(decimals), read back as a number
toFixed(x, decimals) ==
  LET q == 10^(4 - decimals)
  IN IF x < 0 THEN -(((-x + q \div 2) \div q) * q) ELSE ((x + q \div 2) \div q) * q

\* A slip that derives the bicarbonate from the pH alone, pCO2 || 0.
gasWithoutPco2Check(pH, pCO2) ==
  IF IsFinite(pH) THEN hco3FromPHandPco2(pH, OrZero(pCO2)) ELSE NaN

\* Number.isFinite(pH) && Number.isFinite(pCO2) ? hco3FromPHandPco2(pH, pCO2) : NaN
gasBicarbonate(pH, pCO2) ==
  IF IsFinite(pH) /\ IsFinite(pCO2) THEN hco3FromPHandPco2(pH, pCO2) ELSE NaN

\* A slip that counts iCa and Mg once, as if monovalent.
sidAUndoubled(Na, K, iCa, Mg, Cl, Lac) ==
  OrZero(Na) + OrZero(K) + OrZero(iCa) + OrZero(Mg) - OrZero(Cl) - OrZero(Lac)

\* sidA
sidAOf(Na, K, iCa, Mg, Cl, Lac) ==
  OrZero(Na) + OrZero(K) + 2 * OrZero(iCa) + 2 * OrZero(Mg) - OrZero(Cl) - OrZero(Lac)

\* A slip that derives SIG from the two displayed (rounded) values.
sigFromRounded(sidA, sidE) == Sub(Round1(sidA), Round1(sidE))

\* sig = sidA - sidE
sigOf(sidA, sidE) == Sub(sidA, sidE)

\* A slip that leaves K out of the anion gap.
agWithoutK(Na, K, Cl, HCO3) == OrZero(Na) - (OrZero(Cl) + OrZero(HCO3))

\* ag
agOf(Na, K, Cl, HCO3) == OrZero(Na) + OrZero(K) - (OrZero(Cl) + OrZero(HCO3))

\* A slip that hands the molar iCa and Mg to the chart (valence factor lost).
valsUndoubled(Na, K, iCa, Mg, Cl, Lac, ggHCO3, albMinus, piMinus, sigR) ==
  [Na |-> Na, K |-> K, iCa |-> OrZero(iCa), Mg_mmol |-> OrZero(Mg),
   Cl |-> Cl, Lac |-> Lac, HCO3 |-> ggHCO3,
   albMinus |-> albMinus, piMinus |-> piMinus, sig |-> sigR]

\* A slip that hands the molar Mg to the chart while iCa is doubled.
valsMolarMg(Na, K, iCa, Mg, Cl, Lac, ggHCO3, albMinus, piMinus, sigR) ==
  [Na |-> Na, K |-> K, iCa |-> 2 * OrZero(iCa), Mg_mmol |-> OrZero(Mg),
   Cl |-> Cl, Lac |-> Lac, HCO3 |-> ggHCO3,
   albMinus |-> albMinus, piMinus |-> piMinus, sig |-> sigR]

\* The argument of renderGamblegram({...}).
gamblegramVals(Na, K, iCa, Mg, Cl, Lac, ggHCO3, albMinus, piMinus, sigR) ==
  [Na |-> Na, K |-> K, iCa |-> 2 * OrZero(iCa),
   Mg_mmol |-> 2 * (IF IsFinite(Mg) THEN Mg ELSE 0),
   Cl |-> Cl, Lac |-> Lac, HCO3 |-> ggHCO3,
   albMinus |-> albMinus, piMinus |-> piMinus, sig |-> sigR]

computeAll(inp, pick, un, ub, dis) ==
  LET Na == getIonSI(inp, pick, un, "na")
      K == getIonSI(inp, pick, un, "k")
      iCa == getIonSI(inp, pick, un, "ica")
      Mg == getIonSI(inp, pick, un, "mg")
      Cl == getIonSI(inp, pick, un, "cl")
      Lac == getIonSI(inp, pick, un, "lac")
      Alb == parse(inp, pick, "alb")
      Phos == getIonSI(inp, pick, un, "phos")
      pH == parse(inp, pick, "ph")
      pCO2 == parse(inp, pick, "pco2")
      Alb_gL == IF IsFinite(Alb) THEN Alb * 10 ELSE NaN
  IN CHOOSE r \in {
       LET \* hco3El.value = hco3FromGas.toFixed(2) or "" unless the box is checked
           inp1 == IF inp["hco3"] = NoNode \/ ub THEN inp
                   ELSE [inp EXCEPT !["hco3"] =
                           IF IsFinite(hco3FromGas) THEN toFixed(hco3FromGas, 2) ELSE Empty]
           dis1 == IF inp["hco3"] = NoNode THEN dis ELSE ~ub
           \* parse("hco3"), read at part_000:58 and again at part_000:109
           bmpVal == parse(inp1, pick, "hco3")
       IN CHOOSE r1 \in {
            CHOOSE r2 \in {
              LET sig == sigOf(sidA, sidE)
                  sigR == Round1(sig)
                  ggHCO3 == IF ub /\ IsFinite(bmpVal) THEN bmpVal
                            ELSE IF IsFinite(hco3FromGas) THEN hco3FromGas
                            ELSE OrZero(HCO3)
              IN [input |-> inp1, disabled |-> dis1,
                  res |-> [Na |-> Na, K |-> K, iCa |-> iCa, Mg |-> Mg, Cl |-> Cl,
                           Lac |-> Lac, Alb |-> Alb, Phos |-> Phos, pH |-> pH,
                           pCO2 |-> pCO2, useBmp |-> ub, hco3FromGas |-> hco3FromGas,
                           HCO3 |-> HCO3, sidA |-> sidA, albMinus |-> albMinus,
                           piMinus |-> piMinus, sidE |-> sidE, sig |-> sig, ag |-> ag,
                           sidAR |-> Round1(sidA), sidER |-> Round1(sidE),
                           sigR |-> sigR],
                  gg |-> renderGamblegram(
                           gamblegramVals(Na, K, iCa, Mg, Cl, Lac, ggHCO3,
                                          albMinus, piMinus, sigR))]
              : sidE \in {Add(Add(OrZero(HCO3), albMinus), piMinus)},
                ag \in {agOf(Na, K, Cl, HCO3)}} : TRUE
            : HCO3 \in {IF ~IsFinite(bmpVal) /\ IsFinite(hco3FromGas)
                          THEN hco3FromGas ELSE bmpVal}} : TRUE
       : hco3FromGas \in {gasBicarbonate(pH, pCO2)},
         sidA \in {sidAOf(Na, K, iCa, Mg, Cl, Lac)},
         albMinus \in {IF IsFinite(Alb_gL) /\ IsFinite(pH)
                         THEN albuminCharge(Alb_gL, pH) ELSE 0},
         piMinus \in {IF IsFinite(Phos) /\ IsFinite(pH)
                        THEN phosphateCharge(Phos, pH) ELSE 0}} : TRUE

(***************************************************************************)
(* pickers.js                                                              *)
(***************************************************************************)
PICKER_DEFAULTS_SI ==
  [na |-> 140 * SCALE, k |-> 4 * SCALE, ica |-> 12000, mg |-> 5000,
   cl |-> 104 * SCALE, lac |-> 1 * SCALE, alb |-> 4 * SCALE, phos |-> 1 * SCALE,
   ph |-> 74000, pco2 |-> 40 * SCALE, hco3 |-> 24 * SCALE]

\* populatePicker(cfg) for the hco3 picker (no unit selector, decimals: 1):
\* the picker keeps its value, or takes the clinical default when it has
\* none, and the paired numeric input is set to the same label.
populateHco3(inp, pick) ==
  LET prevDisp == parseFloat(pick["hco3"])
      targetSI == IF IsFinite(prevDisp) THEN prevDisp ELSE PICKER_DEFAULTS_SI["hco3"]
      want == toFixed(targetSI, 1)
  IN [input |-> IF inp["hco3"] # NoNode THEN [inp EXCEPT !["hco3"] = want] ELSE inp,
      picker |-> [pick EXCEPT !["hco3"] = want]]

(***************************************************************************)
(* The values a field is given in this model: blank, the clinical default, *)
(* and values outside the chemical domain (a pH at which albumin carries a *)
(* net positive charge, a pH far below zero, a negative concentration).    *)
(***************************************************************************)
FieldValues(id) ==
  CASE id = "ph" -> {Empty} \cup PhValues
    [] id = "na" -> {Empty, 140 * SCALE, -2 * SCALE}
    [] id = "hco3" -> {Empty, 24 * SCALE}
    [] OTHER -> {Empty, PICKER_DEFAULTS_SI[id]}

(***************************************************************************)
(* State after the page has loaded (events.js): pickers populated with the *)
(* clinical defaults, box unchecked, computeAll() run once.                *)
(***************************************************************************)
\* PICKER_CONFIG for the ions with a unit selector: min and step in units
\* of 1 / SCALE
PICKER_CONFIG ==
  [ica |-> [min |-> 0, step |-> 100, decimals |-> 2],
   mg |-> [min |-> 0, step |-> 100, decimals |-> 2],
   lac |-> [min |-> 0, step |-> 1000, decimals |-> 1],
   phos |-> [min |-> 0, step |-> 323, decimals |-> 1]]

\* The label, and value, of the option populatePicker builds for step i.
OptionLabel(id, u, i) ==
  RatFixed(siToDisplay(id, RatOfFix(PICKER_CONFIG[id].min + i * PICKER_CONFIG[id].step), u),
           PICKER_CONFIG[id].decimals)

\* The steps whose options the user picks.
OptionSteps(id) ==
  CASE id = "ica" -> {100, 120}
    [] id = "mg" -> {50, 82}
    [] id = "lac" -> {4, 10}
    [] id = "phos" -> {24, 31}

Options(id, u) == {OptionLabel(id, u, i) : i \in OptionSteps(id)}

\* populatePicker(cfg, prevUnit) for an ion with a unit selector: the value
\* shown is carried over through SI, or is the default when there is none.
populatePicker(inp, pick, id, u, prevUnit) ==
  LET prevDisp == parseFloat(pick[id])
      prevSI == displayToSI(id, RatOfFix(prevDisp), prevUnit)
      targetSI == IF prevSI.d # 0 THEN prevSI ELSE RatOfFix(PICKER_DEFAULTS_SI[id])
      want == RatFixed(siToDisplay(id, targetSI, u), PICKER_CONFIG[id].decimals)
  IN [input |-> IF inp[id] # NoNode THEN [inp EXCEPT ![id] = want] ELSE inp,
      picker |-> IF pick[id] # NoNode THEN [pick EXCEPT ![id] = want] ELSE pick]

LoadedInput == [id \in Ids |-> IF id = "hco3" THEN PICKER_DEFAULTS_SI[id] ELSE NoNode]
LoadedPicker == [id \in Ids |-> PICKER_DEFAULTS_SI[id]]
LoadedUnit == [id \in UnitIds |-> "si"]

(***************************************************************************)
(* gamblegram.js: rectangles, labels and the tween                         *)
(***************************************************************************)
Min(a, b) == IF a < b THEN a ELSE b

\* fSize = Math.max(12, Math.min(Math.round(W * 0.018), 24))
FSize == Max(12, Min((ChartW * 18 + 500) \div 1000, 24))
\* labelHeight = fSizeNum * 1.2
LabelHeight == (FSize * 12 * SCALE) \div 10
LabelSpacing == 2
DefaultExtent == 8
MinStartExtent == 4
DUR == 360

\* The time between two frames, or between a render and the next frame, in
\* milliseconds.
FrameSteps == {120, 360}

\* A slip that never finds a rectangle on screen.
prevRectsNone(dom, k) == [has |-> FALSE, y |-> 0, h |-> 0]

\* prevRects[k]: the geometry of the last rect.gg-rect carrying key k.
prevRects(dom, k) ==
  LET idx == {i \in 1..Len(dom) : dom[i].k = k}
      last == CHOOSE i \in idx : \A j \in idx : j <= i
  IN IF idx = {} THEN [has |-> FALSE, y |-> 0, h |-> 0]
     ELSE [has |-> TRUE, y |-> OrZero(dom[last].y), h |-> OrZero(dom[last].h)]

\* The loop of addSeg over the label boxes already placed in the column.
RECURSIVE avoidBoxes(_, _, _)
avoidBoxes(labelY0, boxes, i) ==
  CHOOSE r \in {
    IF i > Len(boxes) THEN labelY
    ELSE avoidBoxes(
           IF Abs(labelY - boxes[i].y)
                < LabelHeight \div 2 + boxes[i].h \div 2 + LabelSpacing * SCALE
             THEN boxes[i].y + boxes[i].h \div 2 + LabelHeight \div 2 + LabelSpacing * SCALE
             ELSE labelY,
           boxes, i + 1)
    : labelY \in {labelY0}} : TRUE

\* addSeg(t, ..., boxes) for the targets of one column, in their order.
RECURSIVE addSeg(_, _, _, _, _)
addSeg(T, dom, col, i0, acc0) ==
  CHOOSE r \in {
    IF i > Len(T) THEN acc
    ELSE LET t == T[i]
             prev == prevRects(dom, t.k)
             sH == IF prev.has THEN Max(MinStartExtent * SCALE, prev.h)
                   ELSE DefaultExtent * SCALE
             sY == IF prev.has THEN prev.y ELSE BaseY * SCALE - sH
             labelY == avoidBoxes(sY + sH \div 2, acc.boxes, 1)
         IN addSeg(T, dom, col, i + 1,
              [els |-> Append(acc.els,
                        [k |-> t.k, col |-> col, y |-> sY, h |-> sH,
                         val |-> toFixed(OrZero(t.v), 2), ly |-> labelY]),
               anim |-> Append(acc.anim, [sY |-> sY, sH |-> sH, ty |-> t.ty, th |-> t.th]),
               boxes |-> Append(acc.boxes, [y |-> labelY, h |-> LabelHeight])])
    : i \in {i0}, acc \in {acc0}} : TRUE

\* requestAnimationFrame returns a handle no pending callback carries.
requestId(pend) ==
  CHOOSE n \in 1..(Len(pend) + 1) :
    /\ \A i \in 1..Len(pend) : pend[i].id # n
    /\ \A m \in 1..(n - 1) : \E i \in 1..Len(pend) : pend[i].id = m

\* A slip that forgets to cancel the frame the previous tween requested.
cancelNothing(pend, handle) == pend

\* if (window._ggAF) cancelAnimationFrame(window._ggAF)
cancelAnimationFrame(pend, handle) ==
  IF handle = 0 THEN pend ELSE SelectSeq(pend, LAMBDA c : c.id # handle)

\* svg.innerHTML = ...: the rectangles of callbacks still pending leave the page.
detach(pend) == [i \in 1..Len(pend) |-> [pend[i] EXCEPT !.live = FALSE]]

\* A slip that leaves the rectangles of earlier renders in the page.
resetSvgKeeping(dom) == dom

\* svg.innerHTML = title + desc: no rect.gg-rect is left in the page.
resetSvg(dom) == <<>>

\* The part of renderGamblegram that rebuilds the rectangles and labels and
\* starts the tween: prevRects, addSeg for both columns, cancel, request.
startTween(g0, dom0, pend0, handle0) ==
  CHOOSE r \in {
    [svg |-> resetSvg(dom0) \o L.els \o R.els,
     pending |-> Append(kept, [id |-> requestId(kept), anim |-> L.anim \o R.anim,
                               elapsed |-> 0, live |-> TRUE]),
     ggAF |-> requestId(kept)]
    : L \in {addSeg(g0.cT, dom0, "L", 1, [els |-> <<>>, anim |-> <<>>, boxes |-> <<>>])},
      R \in {addSeg(g0.aT, dom0, "R", 1, [els |-> <<>>, anim |-> <<>>, boxes |-> <<>>])},
      kept \in {detach(cancelAnimationFrame(pend0, handle0))}} : TRUE

\* toNonSI(k, v): the number in the conventional-unit line, Null for none.
Null == -(2^30) - 4
toNonSI(k, v) ==
  IF ~IsFinite(v) THEN Null
  ELSE CASE k = "Mg" -> RatFixed(RatDiv(Rat(v, 2 * SCALE), MG_FACTOR), 2)
         [] k = "iCa" -> RatFixed(RatDiv(Rat(v, 2 * SCALE), CA_FACTOR), 2)
         [] k = "Phos" -> RatFixed(RatDiv(Rat(v, SCALE), PO4_FACTOR), 2)
         [] k = "Lactate" -> RatFixed(RatDiv(Rat(v, SCALE), LAC_FACTOR), 2)
         [] k \in {"Na", "K", "Cl", "HCO3"} -> toFixed(v, 2)
         [] OTHER -> Null

\* showTT: ns = toNonSI(key, parseFloat(rect.dataset.val) || 0), the line
\* shown under the value when show-non-si is checked.
ID_MAP ==
  [Na |-> "na", K |-> "k", iCa |-> "ica", Mg |-> "mg", Cl |-> "cl",
   Lactate |-> "lac", Phos |-> "phos"]
showTT(el) == toNonSI(el.k, OrZero(parseFloat(el.val)))

\* The selection state the listeners read and write: the active rectangles,
\* the class "focused" of #gg-svg, the class "visible" of the tooltip.
setActiveRect(ps, k) == [ps EXCEPT !.focused = TRUE, !.active = {k}]
clearActive(ps) == [ps EXCEPT !.focused = FALSE, !.active = {}]
showVisible(ps) == [ps EXCEPT !.tt = TRUE]
hideTT(ps) == [ps EXCEPT !.tt = FALSE]

\* The listeners of one rect.gg-rect, by pointerType.
pointerenter(ps, k, type) ==
  IF type = "touch" THEN ps ELSE showVisible(setActiveRect(ps, k))
pointermove(ps, k, type) == IF type # "touch" THEN showVisible(ps) ELSE ps
pointerleave(ps, k, type) ==
  IF type = "touch" THEN ps
  ELSE IF type \in {"mouse", "pen"} THEN clearActive(hideTT(ps)) ELSE hideTT(ps)
pointerdown(ps, k, type) ==
  IF type = "touch" THEN ps
  ELSE IF k \in ps.active THEN clearActive(hideTT(ps))
  ELSE showVisible(setActiveRect(ps, k))
focus(ps, k) == showVisible(setActiveRect(ps, k))
blur(ps) == clearActive(hideTT(ps))

\* One touchstart listener of #gg-svg, the touch being on rectangle k.
touchstart(ps, k) ==
  IF k \in ps.active THEN clearActive(hideTT(ps)) ELSE showVisible(setActiveRect(ps, k))

\* The n touchstart listeners #gg-svg carries, in the order they were added.
RECURSIVE touchstartListeners(_, _, _)
touchstartListeners(ps0, k, n0) ==
  CHOOSE r \in {
    IF n = 0 THEN ps ELSE touchstartListeners(touchstart(ps, k), k, n - 1)
    : ps \in {ps0}, n \in {n0}} : TRUE

\* A pointerdown listener of document, the target outside #gg-svg or not.
documentPointerdown(ps, inside) ==
  IF ~inside THEN [active |-> {}, focused |-> FALSE, tt |-> FALSE] ELSE ps

\* ease(p) = 1 - (1 - p)^3 at p = elapsed / DUR, as a fraction.
ease(elapsed) ==
  LET g == GCD(DUR - elapsed, DUR)
      u == DUR \div g
      q == (DUR - elapsed) \div g
  IN [num |-> u^3 - q^3, den |-> u^3]

\* a.sY + (a.ty - a.sY) * e
lerp(from, to, e) == from + ((to - from) * e.num) \div e.den

\* A slip that moves the rectangle without resizing it.
tickSegOffsetOnly(el, a, e) ==
  LET cy == lerp(a.sY, a.ty, e)
  IN [el EXCEPT !.y = cy, !.ly = cy + el.h \div 2]

\* The body of anim.forEach in tick for one rectangle and its label.
tickSeg(el, a, e) ==
  LET cy == lerp(a.sY, a.ty, e)
      ch == lerp(a.sH, a.th, e)
  IN [el EXCEPT !.y = cy, !.h = Max(1 * SCALE, ch), !.ly = cy + ch \div 2]

\* One animation frame: every callback pending at its start runs tick(now)
\* once, in request order; dt is the time since the previous frame. anim
\* holds the rectangles its render appended, the last ones of the page.
RECURSIVE runFrame(_, _, _)
runFrame(queue0, dt, st0) ==
  CHOOSE r \in {
    IF queue = <<>> THEN st
    ELSE LET c == Head(queue)
             elapsed == Min(DUR, c.elapsed + dt)
             e == ease(elapsed)
             dom == IF c.live
                      THEN [i \in 1..Len(st.svg) |->
                             LET off == Len(st.svg) - Len(c.anim)
                             IN IF i <= off THEN st.svg[i]
                                ELSE tickSeg(st.svg[i], c.anim[i - off], e)]
                      ELSE st.svg
             id == requestId(Tail(queue) \o st.pending)
         IN runFrame(Tail(queue), dt,
              IF elapsed < DUR
                THEN [svg |-> dom,
                      pending |-> Append(st.pending,
                                    [c EXCEPT !.id = id, !.elapsed = elapsed]),
                      ggAF |-> id]
                ELSE [svg |-> dom, pending |-> st.pending, ggAF |-> 0])
    : queue \in {queue0}, st \in {st0}} : TRUE

(***************************************************************************)
(* events.js: the debounce timers                                          *)
(***************************************************************************)
\* setTimeout(computeAll, 150) of the input listeners.
InputDelay == 150
\* setTimeout(computeAll, 200) of the resize listener.
ResizeDelay == 200
\* The time that passes between two looks at the timers, in milliseconds.
TickSteps == {50}

\* The id setTimeout returns: one no timer carries and no variable holds.
timerId(queue, held) ==
  CHOOSE n \in 1..(Len(queue) + Cardinality(held) + 1) :
    /\ n \notin held /\ \A i \in 1..Len(queue) : queue[i].id # n
    /\ \A m \in 1..(n - 1) : m \in held \/ \E i \in 1..Len(queue) : queue[i].id = m

\* A slip that leaves the timer of the previous event running.
clearTimeoutNothing(queue, handle) == queue

\* clearTimeout(handle): no effect when no such timer is set.
clearTimeout(queue, handle) == SelectSeq(queue, LAMBDA t : t.id # handle)

\* setTimeout(computeAll, delay)
setTimeout(queue, id, kind, delay) ==
  Append(queue, [id |-> id, kind |-> kind, left |-> delay])

\* The timers that run when dt milliseconds pass, in the order they were
\* set, and the ones that stay.
due(queue, dt) == SelectSeq(queue, LAMBDA t : t.left <= dt)
aged(queue, dt) ==
  LET kept == SelectSeq(queue, LAMBDA t : t.left > dt)
  IN [i \in 1..Len(kept) |-> [kept[i] EXCEPT !.left = @ - dt]]

\* computeAll() run n times in a row by one task, on the form pick, un, ub:
\* what the page shows afterwards.
RECURSIVE computeAllTimes(_, _, _, _, _)
computeAllTimes(n0, pg0, pick, un, ub) ==
  CHOOSE r \in {
    IF n = 0 THEN pg
    ELSE CHOOSE r1 \in {
           CHOOSE r2 \in {
             computeAllTimes(n - 1,
               [input |-> c.input, disabled |-> c.disabled, svg |-> tw.svg,
                pending |-> tw.pending, ggAF |-> tw.ggAF], pick, un, ub)
             : tw \in {startTween(c.gg, pg.svg, pg.pending, pg.ggAF)}} : TRUE
           : c \in {computeAll(pg.input, pick, un, ub, pg.disabled)}} : TRUE
    : n \in {n0}, pg \in {pg0}} : TRUE

Init ==
  \E c \in {computeAll(LoadedInput, LoadedPicker, LoadedUnit, FALSE, FALSE)} :
   \E tw \in {startTween(c.gg, <<>>, <<>>, 0)} :
     /\ input = c.input
     /\ picker = LoadedPicker
     /\ unit = LoadedUnit
     /\ useBmp = FALSE
     /\ hco3Disabled = c.disabled
     /\ res = c.res
     /\ gg = c.gg
     /\ svg = tw.svg
     /\ pending = tw.pending
     /\ ggAF = tw.ggAF
     /\ renders = 1
     /\ listeners = [id \in Ids |-> 1]
     /\ timeouts = <<>>
     /\ inputTimer = 0
     /\ resizeTimer = 0
     /\ active = {}
     /\ focused = FALSE
     /\ ttVisible = FALSE
     /\ over = NoKey
     /\ rectFocus = NoKey

\* What a handler does with the result of its last computeAll() call, the
\* page showing dom, pend and handle before it. The rectangles are new ones:
\* none is active, none has been entered by the pointer, none has the
\* focus. The class of #gg-svg and the tooltip are left as they are, unless
\* the browser delivers blur to the rectangle that loses the focus by being
\* removed (browsers differ), whose listener hides and clears.
RenderedFrom(c, dom, pend, handle) ==
  \E tw \in {startTween(c.gg, dom, pend, handle)} :
     /\ input' = c.input
     /\ hco3Disabled' = c.disabled
     /\ res' = c.res
     /\ gg' = c.gg
     /\ svg' = tw.svg
     /\ pending' = tw.pending
     /\ ggAF' = tw.ggAF
     /\ active' = {}
     /\ over' = NoKey
     /\ rectFocus' = NoKey
     /\ \E blurred \in (IF rectFocus = NoKey THEN {FALSE} ELSE BOOLEAN) :
          /\ focused' = (focused /\ ~blurred)
          /\ ttVisible' = (ttVisible /\ ~blurred)

Rendered(c) == RenderedFrom(c, svg, pending, ggAF)

\* The change listeners populatePicker has installed on a picker, one per
\* call: each copies the value to the paired input, then runs computeAll()
\* (which reads the copy back, or has overwritten it with the gas value).
PickerChange(id, v) ==
  /\ picker[id] # v
  /\ picker' = [picker EXCEPT ![id] = v]
  /\ \E pg \in {computeAllTimes(listeners[id] - 1,
                    [input |-> IF input[id] # NoNode THEN [input EXCEPT ![id] = v] ELSE input,
                     disabled |-> hco3Disabled, svg |-> svg, pending |-> pending,
                     ggAF |-> ggAF],
                    picker', unit, useBmp)} :
      \E c \in {computeAll(pg.input, picker', unit, useBmp, pg.disabled)} :
        RenderedFrom(c, pg.svg, pg.pending, pg.ggAF)
  /\ UNCHANGED <<unit, useBmp>>

\* The change listener of the use-bmp-hco3 checkbox: toggleHco3(); computeAll().
ToggleUseBmp ==
  LET cleared == IF input["hco3"] # NoNode THEN [input EXCEPT !["hco3"] = Empty] ELSE input
  IN
  /\ useBmp' = ~useBmp
  /\ \E pop \in {IF useBmp' /\ picker["hco3"] # NoNode
                    THEN populateHco3(cleared, picker)
                    ELSE [input |-> IF useBmp' THEN cleared ELSE input,
                          picker |-> picker]} :
     /\ picker' = pop.picker
     /\ \E c \in {computeAll(pop.input, pop.picker, unit, useBmp',
                              IF input["hco3"] # NoNode THEN useBmp' ELSE hco3Disabled)} :
          Rendered(c)
     /\ UNCHANGED unit

\* The timers of the resize listener and of the input listeners, and the
\* change listener of show-non-si: computeAll() on the form as it stands.
Recompute ==
  /\ \E c \in {computeAll(input, picker, unit, useBmp, hco3Disabled)} : Rendered(c)
  /\ UNCHANGED <<picker, unit, useBmp>>

\* The two change listeners of a unit selector, in the order they were
\* added: convert the input if there is one, computeAll(); then
\* populatePicker(cfg, prev), computeAll().
UnitChange(id) ==
  LET prevU == unit[id]
      newU == IF prevU = "si" THEN "mgdl" ELSE "si"
      curVal == parseFloat(input[id])
      nv == siToDisplay(id, displayToSI(id, RatOfFix(curVal), prevU), newU)
      inp1 == IF input[id] # NoNode /\ IsFinite(curVal) /\ nv.d # 0
                THEN [input EXCEPT ![id] = RatFixed(nv, 2)] ELSE input
  IN
  /\ unit' = [unit EXCEPT ![id] = newU]
  /\ \E c1 \in {computeAll(inp1, picker, unit', useBmp, hco3Disabled)} :
     \E tw1 \in {startTween(c1.gg, svg, pending, ggAF)} :
     \E pop \in {populatePicker(c1.input, picker, id, newU, prevU)} :
     \E c2 \in {computeAll(pop.input, pop.picker, unit', useBmp, c1.disabled)} :
       /\ picker' = pop.picker
       /\ RenderedFrom(c2, tw1.svg, tw1.pending, tw1.ggAF)
  /\ UNCHANGED useBmp

\* The click listener of the reset button: the box unchecked, the unit
\* selectors as they are (a <select> has no defaultValue), every picker
\* repopulated and set to the clinical default in its unit, computeAll().
Reset ==
  LET label(id) ==
        IF id \in UnitIds
          THEN RatFixed(siToDisplay(id, RatOfFix(PICKER_DEFAULTS_SI[id]), unit[id]),
                        PICKER_CONFIG[id].decimals)
          ELSE PICKER_DEFAULTS_SI[id]
  IN
  /\ useBmp' = FALSE
  /\ picker' = [id \in Ids |-> IF picker[id] # NoNode THEN label(id) ELSE NoNode]
  /\ \E c \in {computeAll([id \in Ids |-> IF input[id] # NoNode THEN label(id) ELSE NoNode],
                           picker', unit, FALSE, FALSE)} : Rendered(c)
  /\ UNCHANGED unit

\* The selection state, and what a handler leaves of it.
Selection == [active |-> active, focused |-> focused, tt |-> ttVisible]
Selected(ps) ==
  /\ active' = ps.active
  /\ focused' = ps.focused
  /\ ttVisible' = ps.tt
  /\ UNCHANGED <<input, picker, unit, useBmp, hco3Disabled, res, gg, svg, pending,
                 ggAF, renders, listeners, timerVars>>
OnScreen(k) == \E i \in 1..Len(svg) : svg[i].k = k

\* The mouse pointer comes onto rectangle k, moves on it, leaves it.
MouseEnter(k) ==
  /\ over = NoKey /\ OnScreen(k)
  /\ over' = k
  /\ Selected(pointerenter(Selection, k, "mouse"))
  /\ UNCHANGED rectFocus

MouseMove ==
  /\ over # NoKey
  /\ Selected(pointermove(Selection, over, "mouse"))
  /\ UNCHANGED <<over, rectFocus>>

MouseLeave ==
  /\ over # NoKey
  /\ over' = NoKey
  /\ Selected(pointerleave(Selection, over, "mouse"))
  /\ UNCHANGED rectFocus

\* A mouse button goes down on the rectangle under the pointer: its
\* pointerdown listener (document's listeners see a target inside the
\* chart), then, where the browser moves the focus to the rectangle
\* (tabindex 0), blur on the one that had it and focus on this one.
MouseDown ==
  /\ over # NoKey
  /\ \E moves \in (IF rectFocus = over THEN {FALSE} ELSE BOOLEAN) :
       \E down \in {documentPointerdown(pointerdown(Selection, over, "mouse"), TRUE)} :
         /\ rectFocus' = IF moves THEN over ELSE rectFocus
         /\ Selected(IF ~moves THEN down
                      ELSE focus(IF rectFocus # NoKey THEN blur(down) ELSE down, over))
  /\ UNCHANGED over

\* A mouse button goes down outside the chart: document's listeners, and
\* blur on the rectangle that had the focus.
MouseDownOutside ==
  /\ over = NoKey
  /\ rectFocus' = NoKey
  /\ \E down \in {documentPointerdown(Selection, FALSE)} :
       Selected(IF rectFocus # NoKey THEN blur(down) ELSE down)
  /\ UNCHANGED over

\* The keyboard moves the focus to rectangle k, or away from the chart.
TabTo(k) ==
  /\ rectFocus # k /\ OnScreen(k)
  /\ rectFocus' = k
  /\ Selected(focus(IF rectFocus # NoKey THEN blur(Selection) ELSE Selection, k))
  /\ UNCHANGED over

TabAway ==
  /\ rectFocus # NoKey
  /\ rectFocus' = NoKey
  /\ Selected(blur(Selection))
  /\ UNCHANGED over

\* A finger taps rectangle k: pointerdown with pointerType touch (ignored
\* by the rectangle, inside the chart for document), then touchstart on
\* #gg-svg, which carries one listener per renderGamblegram call; their
\* preventDefault keeps the focus and the mouse events away.
TouchTap(k) ==
  /\ OnScreen(k)
  /\ Selected(touchstartListeners(
                documentPointerdown(pointerdown(Selection, k, "touch"), TRUE), k, renders))
  /\ UNCHANGED <<over, rectFocus>>

\* The browser delivers an animation frame dt milliseconds after the last.
Frame(dt) ==
  /\ pending # <<>>
  /\ \E st \in {runFrame(pending, dt, [svg |-> svg, pending |-> <<>>, ggAF |-> ggAF])} :
       /\ svg' = st.svg
       /\ pending' = st.pending
       /\ ggAF' = st.ggAF
  /\ UNCHANGED <<input, picker, unit, useBmp, hco3Disabled, res, gg, renders,
                 listeners, timerVars, pointerVars>>

\* The input listener every <input> carries: restart the 150 ms timer.
InputListener ==
  \E q \in {clearTimeout(timeouts, inputTimer)} :
   \E id \in {timerId(q, {inputTimer, resizeTimer})} :
     /\ timeouts' = setTimeout(q, id, "input", InputDelay)
     /\ inputTimer' = id
     /\ UNCHANGED resizeTimer

\* An input event on an <input> computeAll does not read (toggle-light).
InputEvent ==
  /\ InputListener
  /\ UNCHANGED <<input, picker, unit, useBmp, hco3Disabled, res, gg, svg, pending,
                 ggAF, renders, listeners, pointerVars>>

\* A click on the use-bmp-hco3 checkbox: its input event, then its change
\* event.
ClickUseBmp ==
  /\ InputListener
  /\ ToggleUseBmp
  /\ renders' = renders + 1
  /\ UNCHANGED listeners

\* The resize listener of window: restart the 200 ms timer.
ResizeEvent ==
  /\ \E q \in {clearTimeout(timeouts, resizeTimer)} :
      \E id \in {timerId(q, {inputTimer, resizeTimer})} :
        /\ timeouts' = setTimeout(q, id, "resize", ResizeDelay)
        /\ resizeTimer' = id
        /\ UNCHANGED inputTimer
  /\ UNCHANGED <<input, picker, unit, useBmp, hco3Disabled, res, gg, svg, pending,
                 ggAF, renders, listeners, pointerVars>>

\* dt milliseconds pass: the timers that are due run computeAll(), each in
\* its own task and in the order they were set; no frame comes in between.
Tick(dt) ==
  /\ timeouts' = aged(timeouts, dt)
  /\ renders' = renders + Len(due(timeouts, dt))
  /\ IF due(timeouts, dt) = <<>>
       THEN UNCHANGED <<input, hco3Disabled, res, gg, svg, pending, ggAF, pointerVars>>
       ELSE \E pg \in {computeAllTimes(Len(due(timeouts, dt)) - 1,
                           [input |-> input, disabled |-> hco3Disabled, svg |-> svg,
                            pending |-> pending, ggAF |-> ggAF],
                           picker, unit, useBmp)} :
            \E c \in {computeAll(pg.input, picker, unit, useBmp, pg.disabled)} :
              RenderedFrom(c, pg.svg, pg.pending, pg.ggAF)
  /\ UNCHANGED <<picker, unit, useBmp, listeners, inputTimer, resizeTimer>>

\* The form on its own: every handler runs to its end before the next frame.
Next ==
  \/ \E id \in Ids : \E v \in FieldValues(id) : PickerChange(id, v) /\ UNCHANGED <<renders, listeners, timerVars>>
  \/ ToggleUseBmp /\ UNCHANGED <<renders, listeners, timerVars>>

Spec == Init /\ [][Next]_vars

\* The ions with a unit selector: the user switches units and picks options.
NextUnits ==
  \/ \E id \in UnitIds : UnitChange(id) /\ UNCHANGED <<renders, listeners, timerVars>>
  \/ \E id \in UnitIds : \E v \in Options(id, unit[id]) :
       PickerChange(id, v) /\ UNCHANGED <<renders, listeners, timerVars>>

SpecUnits == Init /\ [][NextUnits]_vars

\* Renders interleaved with animation frames.
MaxRenders == 3
TweenIds == {"na", "ph"}

NextTween ==
  \/ /\ renders < MaxRenders
     /\ renders' = renders + 1
     /\ UNCHANGED <<listeners, timerVars>>
     /\ \/ \E id \in TweenIds : \E v \in FieldValues(id) : PickerChange(id, v)
        \/ Recompute
  \/ \E dt \in FrameSteps : Frame(dt)

SpecTween == Init /\ [][NextTween]_vars

\* requestAnimationFrame: a requested callback is run at the next frame.
SpecTweenFair == SpecTween /\ WF_vars(\E dt \in FrameSteps : Frame(dt))

\* The handlers that call populatePicker, and the change listeners it adds.
ListenerValues(id) == IF id \in UnitIds THEN Options(id, unit[id]) ELSE FieldValues(id)

NextListeners ==
  \/ \E id \in Ids : \E v \in ListenerValues(id) :
       /\ renders < MaxRenders
       /\ PickerChange(id, v)
       /\ renders' = renders + listeners[id]
       /\ UNCHANGED <<listeners, timerVars>>
  \/ \E id \in UnitIds :
       /\ renders < MaxRenders
       /\ UnitChange(id)
       /\ renders' = renders + 2
       /\ listeners' = [listeners EXCEPT ![id] = @ + 1]
       /\ UNCHANGED timerVars
  \/ /\ renders < MaxRenders
     /\ ToggleUseBmp
     /\ renders' = renders + 1
     /\ listeners' = IF useBmp' /\ picker["hco3"] # NoNode
                       THEN [listeners EXCEPT !["hco3"] = @ + 1] ELSE listeners
     /\ UNCHANGED timerVars
  \/ /\ renders < MaxRenders
     /\ Reset
     /\ renders' = renders + 1
     /\ listeners' = [id \in Ids |-> IF picker[id] # NoNode THEN listeners[id] + 1
                                      ELSE listeners[id]]
     /\ UNCHANGED timerVars

SpecListeners == Init /\ [][NextListeners]_vars

\* Pointer, touch and keyboard events on the chart between renders.
PointerKeys == {"Na", "Cl", "HCO3"}

NextPointer ==
  \/ /\ renders < MaxRenders
     /\ renders' = renders + 1
     /\ Recompute
     /\ UNCHANGED <<listeners, timerVars>>
  \/ \E k \in PointerKeys : MouseEnter(k)
  \/ \E k \in PointerKeys : TabTo(k)
  \/ \E k \in PointerKeys : TouchTap(k)
  \/ MouseMove
  \/ MouseLeave
  \/ MouseDown
  \/ MouseDownOutside
  \/ TabAway

SpecPointer == Init /\ [][NextPointer]_vars

\* Input and resize events while time passes.
MaxCalls == 5

NextTimers ==
  \/ renders + Len(timeouts) < MaxCalls /\ InputEvent
  \/ renders + Len(timeouts) < MaxCalls /\ ResizeEvent
  \/ renders + Len(timeouts) < MaxCalls /\ ClickUseBmp
  \/ \E dt \in TickSteps : Tick(dt)

SpecTimers == Init /\ [][NextTimers]_vars

\* Time passes.
SpecTimersFair == SpecTimers /\ WF_vars(\E dt \in TickSteps : Tick(dt))

(***************************************************************************)
(* Properties                                                              *)
(***************************************************************************)
Present(x) == IsFinite(x)
BothStacks == <<gg.cations, gg.anions>>
Known(stack) == SelectSeq(stack, LAMBDA x : x.k # "Unknown")
Unknowns(stack) == SelectSeq(stack, LAMBDA x : x.k = "Unknown")
RECURSIVE Total(_)
Total(stack) == IF stack = <<>> THEN 0 ELSE Head(stack).v + Total(Tail(stack))
ValueOf(stack, key) == Total(SelectSeq(stack, LAMBDA x : x.k = key))
\* The bicarbonate computeAll adds into SIDe and the anion gap.
EffectiveHCO3 == OrZero(res.HCO3)
\* What the measured-bicarbonate field, or its picker, holds.
MeasuredHCO3 == parse(input, picker, "hco3")

\* C1: SIG is obtained only as SIDa - SIDe, and SIDe is the effective
\* bicarbonate plus the albumin charge plus the phosphate charge.
Thm_C1 ==
  /\ res.sig = Sub(res.sidA, res.sidE)
  /\ res.sidE = Add(Add(EffectiveHCO3, res.albMinus), res.piMinus)

Wit_C1 ==
  /\ Present(res.sig) /\ res.sig # 0 /\ res.sig # res.sidA
  /\ res.albMinus # 0 /\ res.piMinus # 0 /\ EffectiveHCO3 # 0
  /\ res.sidAR # res.sidA - (res.sidER - res.sidE)

\* C2: the effective bicarbonate is the measured value if the box is
\* checked and a measured value is present, else the gas-derived value if
\* pH and pCO2 are both present, else 0.
Claim_C2 ==
  EffectiveHCO3 =
    IF res.useBmp /\ Present(MeasuredHCO3) THEN MeasuredHCO3
    ELSE IF Present(res.pH) /\ Present(res.pCO2) THEN res.hco3FromGas
    ELSE 0

\* C3: the valence factor 2 of iCa and Mg is applied exactly once: in SIDa,
\* in the two segments handed to the chart, and not again in the chart, so
\* the known cation segments minus the Cl and Lactate segments sum to SIDa.
Thm_C3 ==
  /\ res.sidA = OrZero(res.Na) + OrZero(res.K) + 2 * OrZero(res.iCa)
                + 2 * OrZero(res.Mg) - OrZero(res.Cl) - OrZero(res.Lac)
  /\ ValueOf(gg.cations, "iCa") = 2 * OrZero(res.iCa)
  /\ ValueOf(gg.cations, "Mg") = 2 * OrZero(res.Mg)
  /\ Total(Known(gg.cations)) - ValueOf(gg.anions, "Cl")
       - ValueOf(gg.anions, "Lactate") = res.sidA

Wit_C3 ==
  /\ Present(res.iCa) /\ res.iCa > 0 /\ Present(res.Mg) /\ res.Mg > 0
  /\ Present(res.Cl) /\ Present(res.Lac) /\ ~Present(res.K)

\* C4: the anion gap is Na + K - (Cl + effective HCO3), with the same
\* effective HCO3 as SIDe, so AG - SIG = Lactate + albumin charge +
\* phosphate charge - 2 iCa - 2 Mg.
Thm_C4 ==
  /\ res.ag = OrZero(res.Na) + OrZero(res.K) - (OrZero(res.Cl) + EffectiveHCO3)
  /\ Sub(res.ag, res.sig) =
       Add(Add(OrZero(res.Lac) - 2 * OrZero(res.iCa) - 2 * OrZero(res.Mg),
               res.albMinus), res.piMinus)

Wit_C4 ==
  /\ Present(res.K) /\ res.K > 0 /\ EffectiveHCO3 > 0 /\ Present(res.sig)
  /\ res.albMinus # 0 /\ res.piMinus # 0 /\ Present(res.Lac) /\ Present(res.iCa)

\* C5: the albumin charge is 0 when albumin or pH is absent, the phosphate
\* charge is 0 when phosphate or pH is absent, and the gas-derived
\* bicarbonate is present exactly when pH and pCO2 are both present.
Thm_C5 ==
  /\ (~Present(res.Alb) \/ ~Present(res.pH)) => res.albMinus = 0
  /\ (~Present(res.Phos) \/ ~Present(res.pH)) => res.piMinus = 0
  /\ (res.hco3FromGas # NaN) <=> (Present(res.pH) /\ Present(res.pCO2))

Wit_C5 ==
  /\ Present(res.pH) /\ ~Present(res.pCO2) /\ ~Present(res.Alb)
  /\ Present(res.Phos) /\ res.piMinus # 0

\* C6: for every assignment of the inputs to absent or finite values,
\* SIDa, SIDe, SIG, the anion gap and every segment value and extent are
\* finite numbers.
Claim_C6 ==
  /\ Present(res.sidA) /\ Present(res.sidE) /\ Present(res.sig) /\ Present(res.ag)
  /\ \A i \in 1..2 : \A j \in 1..Len(BothStacks[i]) : Present(BothStacks[i][j].v)
  /\ \A j \in 1..Len(gg.cT) : Present(gg.cT[j].th) /\ Present(gg.cT[j].ty)
  /\ \A j \in 1..Len(gg.aT) : Present(gg.aT[j].th) /\ Present(gg.aT[j].ty)

\* C7: the Unknown segment follows SIG rounded to one decimal: above
\* 0.0001 one Unknown of that value on the anion stack, below -0.0001 one
\* Unknown of its absolute value on the cation stack, otherwise none; never
\* on both stacks, and the label under the chart names the same side.
Thm_C7 ==
  LET r == OrZero(res.sigR)
  IN /\ r > UnknownThreshold =>
          /\ Unknowns(gg.anions) = <<Seg("Unknown", r)>>
          /\ Unknowns(gg.cations) = <<>>
          /\ gg.unknownEl = <<"Unknown anions", r>>
     /\ r < -UnknownThreshold =>
          /\ Unknowns(gg.cations) = <<Seg("Unknown", -r)>>
          /\ Unknowns(gg.anions) = <<>>
          /\ gg.unknownEl = <<"Unknown cations", -r>>
     /\ (r <= UnknownThreshold /\ r >= -UnknownThreshold) =>
          /\ Unknowns(gg.cations) = <<>> /\ Unknowns(gg.anions) = <<>>
          /\ gg.unknownEl = <<"Unknown: none", 0>>
     /\ Unknowns(gg.cations) = <<>> \/ Unknowns(gg.anions) = <<>>

\* SIG is not zero and rounds to zero: no Unknown segment.
Wit_C7 ==
  /\ Present(res.sig) /\ res.sig # 0 /\ res.sigR = 0
  /\ Unknowns(gg.cations) = <<>> /\ Unknowns(gg.anions) = <<>>

\* C8: in every built stack the known segments are in descending order of
\* value and the Unknown segment, if any, is the last element.
Thm_C8 ==
  \A i \in 1..2 :
    LET st == BothStacks[i]
    IN /\ \A j \in 1..(Len(Known(st)) - 1) : Known(st)[j].v >= Known(st)[j + 1].v
       /\ \A j \in 1..Len(st) : st[j].k = "Unknown" => j = Len(st)

\* The Unknown segment is larger than a known segment below it, and the
\* sort has moved segments.
Wit_C8 ==
  /\ Unknowns(gg.anions) # <<>>
  /\ gg.anions[Len(gg.anions)].v > gg.anions[Len(gg.anions) - 1].v
  /\ gg.anions[2].k # "Lactate"
  /\ gg.cations[1].k # "Na"

\* C9: every segment of either stack has a value >= 0.
Claim_C9 ==
  \A i \in 1..2 : \A j \in 1..Len(BothStacks[i]) : BothStacks[i][j].v >= 0

\* C10: totalCations and totalAnions are the sums of all segment values of
\* their stack, Unknown included, and maxStack = max(totalC, totalA, 1) >= 1.
Thm_C10 ==
  /\ gg.totalC = Total(gg.cations)
  /\ gg.totalA = Total(gg.anions)
  /\ gg.maxStack = Max(Max(gg.totalC, gg.totalA), 1 * SCALE)
  /\ gg.maxStack >= 1 * SCALE

\* Every input absent: both totals are 0 and the floor of 1 applies.
Wit_C10 ==
  /\ \A id \in Ids : ~Present(parse(input, picker, id))
  /\ gg.totalC = 0 /\ gg.totalA = 0 /\ gg.maxStack = 1 * SCALE

\* C11: in each column every target extent is max(10, value / maxStack * H),
\* the first target offset is the baseline minus its extent and every
\* further offset is the previous offset minus its own extent, so the
\* target rectangles are contiguous, do not overlap, and both columns
\* start from the same baseline.
Thm_C11 ==
  \A col \in {gg.cT, gg.aT} :
    \A j \in 1..Len(col) :
      /\ col[j].th >= MinExtent * SCALE
      /\ col[j].th > MinExtent * SCALE =>
            /\ col[j].v > 0
            /\ col[j].th \div SCALE = (col[j].v * ChartH) \div gg.maxStack
      /\ col[j].th = MinExtent * SCALE =>
            (col[j].v <= 0 \/ (col[j].v * ChartH) \div gg.maxStack <= MinExtent)
      /\ col[j].ty + col[j].th = (IF j = 1 THEN BaseY * SCALE ELSE col[j - 1].ty)
      /\ j > 1 => col[j].ty < col[j - 1].ty

\* Both columns hold a segment at the minimum extent above a larger one.
Wit_C11 ==
  /\ Len(gg.cT) = 4 /\ Len(gg.aT) = 6
  /\ gg.cT[1].th > MinExtent * SCALE /\ gg.cT[4].th = MinExtent * SCALE
  /\ gg.aT[1].th > MinExtent * SCALE /\ gg.aT[5].th = MinExtent * SCALE
  /\ gg.cT[4].v > 0

\* The targets of the last render, in the order of the rectangles.
TargetsOnScreen == gg.cT \o gg.aT
\* The tween the last render started, while a callback of it is pending.
Tween == pending[Len(pending)]
\* The tween has ended: every rectangle is at its target and nothing is pending.
Settled ==
  /\ pending = <<>>
  /\ ggAF = 0
  /\ \A i \in 1..Len(svg) :
       svg[i].y = TargetsOnScreen[i].ty /\ svg[i].h = TargetsOnScreen[i].th
LabelDistance == LabelHeight + LabelSpacing * SCALE
LoadedTargets ==
  LET c == computeAll(LoadedInput, LoadedPicker, LoadedUnit, FALSE, FALSE)
  IN c.gg.cT \o c.gg.aT

\* C12: whatever the interleaving of renders and animation frames, at most
\* one frame callback is pending, it belongs to the tween of the latest
\* render (whose rectangles are the ones on the page) and window._ggAF holds
\* its handle; no callback of an earlier tween is left to run, and the
\* handle is null when nothing is pending.
Thm_C12 ==
  /\ Len(pending) <= 1
  /\ \A i \in 1..Len(pending) : pending[i].live /\ pending[i].id = ggAF
  /\ pending = <<>> => ggAF = 0

\* A third render whose tween has run a frame and requested the next one.
Wit_C12 ==
  /\ renders >= 3
  /\ pending # <<>>
  /\ pending[1].elapsed > 0
  /\ pending[1].id = ggAF

\* C13: every render starts each segment from the geometry on screen for
\* its key at that moment (the offset and extent last written, also in the
\* middle of a tween), and a key with no rectangle on screen starts with
\* extent 8 anchored at the baseline.
Thm_C13 ==
  [][renders' # renders =>
      \A i \in 1..Len(svg') :
        LET a == pending'[Len(pending')].anim[i]
            on == {j \in 1..Len(svg) : svg[j].k = svg'[i].k}
        IN /\ svg'[i].y = a.sY /\ svg'[i].h = a.sH
           /\ on # {} => \E j \in on : a.sY = svg[j].y /\ a.sH = svg[j].h
           /\ on = {} => /\ a.sH = DefaultExtent * SCALE
                          /\ a.sY = (BaseY - DefaultExtent) * SCALE]_vars

\* A render after the first tween was interrupted one frame in: Na starts
\* from where that frame left it, and the Unknown segment, absent before,
\* starts from the default.
Wit_C13 ==
  /\ renders >= 3
  /\ pending # <<>>
  /\ Tween.elapsed = 0
  /\ \E i \in 1..Len(svg) :
       /\ svg[i].k = "Unknown"
       /\ Tween.anim[i].sH = DefaultExtent * SCALE
       /\ Tween.anim[i].sY = (BaseY - DefaultExtent) * SCALE
  /\ \E i \in 1..Len(svg) :
       /\ svg[i].k = "Na"
       /\ Tween.anim[i].sH =
            lerp(DefaultExtent * SCALE, LoadedTargets[1].th, ease(120))

\* C14: once no further render happens and frames keep coming, the tween
\* ends: every rectangle is at its target, window._ggAF is null and no
\* callback is pending; and a render that follows starts every segment
\* from exactly those targets.
Thm_C14 ==
  /\ \A n \in 1..MaxRenders : (renders = n) ~> (renders # n \/ Settled)
  /\ [][(Settled /\ renders' # renders) =>
          \A i \in 1..Len(svg') : \A j \in 1..Len(svg) :
            svg[j].k = svg'[i].k =>
              /\ svg'[i].y = TargetsOnScreen[j].ty
              /\ svg'[i].h = TargetsOnScreen[j].th]_vars

\* A second or later tween has ended away from the default start geometry.
Wit_C14 ==
  /\ Settled
  /\ renders >= 2
  /\ \A i \in 1..Len(svg) : svg[i].h >= MinExtent * SCALE

\* C15: a render from the settled state with the same inputs leaves every
\* rectangle and every label where it is, at the render and in every frame
\* of its tween.
Claim_C15 ==
  [][/\ (Settled /\ renders' # renders /\ gg' = gg) =>
          \A i \in 1..Len(svg) :
            /\ svg'[i].y = svg[i].y
            /\ svg'[i].h = svg[i].h
            /\ svg'[i].ly = svg[i].ly
     /\ (/\ renders' = renders
         /\ pending # <<>>
         /\ \A i \in 1..Len(svg) :
              Tween.anim[i].sY = Tween.anim[i].ty /\ Tween.anim[i].sH = Tween.anim[i].th) =>
          \A i \in 1..Len(svg) :
            /\ svg'[i].y = svg[i].y
            /\ svg'[i].h = svg[i].h
            /\ svg'[i].ly = svg[i].ly]_vars

\* C16: a render places the labels of each column from the top of the
\* chart to the bottom, and leaves every label at least half its height
\* plus half the other height plus the spacing of 2 away from the label
\* placed just before it in its column.
Claim_C16 ==
  [][renders' # renders =>
      \A i \in 1..(Len(svg') - 1) :
        LET a == pending'[Len(pending')].anim[i]
            b == pending'[Len(pending')].anim[i + 1]
        IN svg'[i].col = svg'[i + 1].col =>
             /\ a.sY + a.sH \div 2 <= b.sY + b.sH \div 2
             /\ Abs(svg'[i + 1].ly - svg'[i].ly) >= LabelDistance]_vars

\* C17: once the tween has ended, no two labels of one column have centres
\* closer than one label height plus the spacing.
Claim_C17 ==
  Settled =>
    \A i, j \in 1..Len(svg) :
      (i < j /\ svg[i].col = svg[j].col) => Abs(svg[i].ly - svg[j].ly) >= LabelDistance

\* The fractions the unit conversions are applied to: every value a picker
\* shows, in either unit.
Shown == {RatOfFix(picker[id]) : id \in {i \in Ids : IsFinite(parseFloat(picker[i]))}}

\* MW in g/mol: Mg 24.305, Ca 40.08, lactate 89.07, phosphate as P 30.97.
MolarMass(id) ==
  CASE id = "mg" -> Rat(24305, 1000)
    [] id = "ica" -> Rat(4008, 100)
    [] id = "lac" -> Rat(8907, 100)
    [] id = "phos" -> Rat(3097, 100)

Claim_C19 ==
  \A i \in 1..Len(svg) :
    (/\ svg[i].k \in DOMAIN ID_MAP
     /\ ID_MAP[svg[i].k] \in UnitIds
     /\ unit[ID_MAP[svg[i].k]] = "mgdl"
     /\ IsFinite(parse(input, picker, ID_MAP[svg[i].k]))) =>
       Abs(showTT(svg[i]) - parse(input, picker, ID_MAP[svg[i].k])) <= SCALE \div 100

\* The reference scenario, with the bicarbonate taken from the gas.
ReferenceScenario ==
  /\ res.Na = 140 * SCALE /\ res.K = 4 * SCALE /\ res.iCa = 12000 /\ res.Mg = 5000
  /\ res.Cl = 104 * SCALE /\ res.Lac = 1 * SCALE
  /\ res.pH = 74000 /\ res.pCO2 = 40 * SCALE
  /\ res.Alb = 4 * SCALE /\ res.Phos = 1 * SCALE
  /\ ~res.useBmp
\* x is about the value written milli / 1000: within 0.05 of it.
About(x, milli) == IsFinite(x) /\ Abs(x - milli * (SCALE \div 1000)) <= SCALE \div 20
UnknownAnions == {i \in 1..Len(gg.anions) : gg.anions[i].k = "Unknown"}

\* C20, as amended: in the reference scenario computeAll yields SIDa of
\* about 42.4, SIDe of about 36.94 and SIG of about 5.46, and the anion
\* stack receives an Unknown segment of about 5.5 mEq/L.
Thm_C20 ==
  ReferenceScenario =>
    /\ About(res.sidA, 42400)
    /\ About(res.sidE, 36940)
    /\ About(res.sig, 5460)
    /\ UnknownAnions # {}
    /\ \A i \in UnknownAnions : About(gg.anions[i].v, 5500)

\* The reference scenario computed, the gas bicarbonate 23.94 written to the
\* bicarbonate field and the Unknown segment on the anion side.
Wit_C20 ==
  /\ ReferenceScenario
  /\ input["hco3"] = 239400
  /\ res.sidA = 424000
  /\ UnknownAnions # {}

\* C20, as written: in the reference scenario computeAll yields SIDa of
\* about 41.4, SIDe of about 36.97 and SIG of about 4.43, and the anion
\* stack receives an Unknown segment of about 4.4 mEq/L.
Claim_C20 ==
  ReferenceScenario =>
    /\ About(res.sidA, 41400)
    /\ About(res.sidE, 36970)
    /\ About(res.sig, 4430)
    /\ UnknownAnions # {}
    /\ \A i \in UnknownAnions : About(gg.anions[i].v, 4400)

\* C21: with albumin 4.0 g/dL (40 g/L) and pH 7.40 the albumin charge is
\* 11.15 mEq/L within 0.05; it is -(albumin / 66.5) times the net charge of
\* the residue inventory, which has 5 histidines shifted by NB and 11 fixed.
Thm_C21 ==
  (res.Alb = 4 * SCALE /\ res.pH = 74000) =>
    /\ About(res.albMinus, 11150)
    /\ res.albMinus = albuminCharge(40 * SCALE, 74000)
    /\ Len(HIS_NB) = 5 /\ Len(HIS_STD) = 11

\* Albumin 4.0 and pH 7.40 with another field changed since the page loaded.
Wit_C21 ==
  /\ res.Alb = 4 * SCALE /\ res.pH = 74000
  /\ res.albMinus = 111502
  /\ ~IsFinite(res.Na)

\* The timers the input listeners and the resize listener have running.
InputTimers == SelectSeq(timeouts, LAMBDA t : t.kind = "input")
ResizeTimers == SelectSeq(timeouts, LAMBDA t : t.kind = "resize")
\* The computeAll() calls the timers of queue make when dt milliseconds pass.
Fires(queue, dt) == Len(SelectSeq(queue, LAMBDA t : t.left <= dt))

\* C22: at most one input timer and one resize timer run at a time; an
\* input event restarts the input timer at 150 ms and leaves the resize
\* timer alone, a resize event restarts the resize timer at 200 ms and
\* leaves the input timer alone, and neither event calls computeAll; when
\* time passes computeAll is called once for the input timer exactly if its
\* 150 ms are over (and once for the resize timer if its 200 ms are), so a
\* burst ends in one call 150 ms after its last event; and a running input
\* timer does run unless a further input event restarts it.
Thm_C22 ==
  /\ [](/\ Len(InputTimers) <= 1 /\ Len(ResizeTimers) <= 1
        /\ \A i \in 1..Len(timeouts) :
             /\ timeouts[i].left > 0
             /\ timeouts[i].kind = "input" =>
                  timeouts[i].id = inputTimer /\ timeouts[i].left <= InputDelay
             /\ timeouts[i].kind = "resize" =>
                  timeouts[i].id = resizeTimer /\ timeouts[i].left <= ResizeDelay)
  /\ [][inputTimer' # inputTimer =>
          /\ InputTimers' = <<[id |-> inputTimer', kind |-> "input", left |-> InputDelay]>>
          /\ ResizeTimers' = ResizeTimers /\ resizeTimer' = resizeTimer
          /\ renders' = renders + (IF useBmp' # useBmp THEN 1 ELSE 0)]_vars
  /\ [][resizeTimer' # resizeTimer =>
          /\ ResizeTimers' = <<[id |-> resizeTimer', kind |-> "resize", left |-> ResizeDelay]>>
          /\ InputTimers' = InputTimers /\ inputTimer' = inputTimer
          /\ renders' = renders]_vars
  /\ [][(inputTimer' = inputTimer /\ resizeTimer' = resizeTimer) =>
          \E dt \in TickSteps :
            /\ renders' = renders + Fires(InputTimers, dt) + Fires(ResizeTimers, dt)
            /\ Len(InputTimers') = Len(InputTimers) - Fires(InputTimers, dt)
            /\ Len(ResizeTimers') = Len(ResizeTimers) - Fires(ResizeTimers, dt)
            /\ \A i \in 1..Len(timeouts') : \E j \in 1..Len(timeouts) :
                 /\ timeouts[j].id = timeouts'[i].id
                 /\ timeouts'[i].left = timeouts[j].left - dt]_vars
  /\ \A n \in 0..(MaxCalls + 1) :
       (renders = n /\ InputTimers # <<>> /\ InputTimers[1].left < InputDelay)
         ~> (renders > n \/ (InputTimers # <<>> /\ InputTimers[1].left = InputDelay))

\* One timer has called computeAll, an input event is 100 ms old and a
\* resize event has just come: both timers run.
Wit_C22 ==
  /\ renders = 2 /\ ~useBmp
  /\ Len(InputTimers) = 1 /\ InputTimers[1].left = InputDelay - 100
  /\ Len(ResizeTimers) = 1 /\ ResizeTimers[1].left = ResizeDelay
  /\ inputTimer # resizeTimer

\* C23: a unit change keeps the SI amount computeAll reads for the ion (to
\* 0.005 mmol/L), and changing the unit back brings the picker back to the
\* value it showed before.
Claim_C23 ==
  [][\A id \in UnitIds :
       unit'[id] # unit[id] =>
         /\ Abs(getIonSI(input', picker', unit', id)
                 - getIonSI(input, picker, unit, id)) <= SCALE \div 200
         /\ populatePicker(input', picker', id, unit[id], unit'[id]).picker[id]
              = picker[id]]_vars

\* C24: whatever the number of renders so far, a tap on a rectangle that is
\* not active leaves exactly that one active, the chart focused and the
\* tooltip shown, and a tap on the active one leaves none active and the
\* tooltip hidden.
Claim_C24 ==
  \A k \in PointerKeys :
    LET tapped == touchstartListeners(Selection, k, renders)
    IN IF k \notin active
         THEN tapped.active = {k} /\ tapped.focused /\ tapped.tt
         ELSE tapped.active = {} /\ ~tapped.focused /\ ~tapped.tt

Claim_C26 ==
  \A col \in {gg.cT, gg.aT} :
    \A j \in 1..Len(col) :
      col[j].ty >= 0 /\ col[j].ty + col[j].th <= BaseY * SCALE

\* C27: the prior geometry a render reads holds exactly the keys of the
\* render before it (one rectangle per segment of that render, nothing
\* older), and a key that render did not draw starts from the default
\* extent at the baseline.
Thm_C27 ==
  /\ [](/\ Len(svg) = Len(TargetsOnScreen)
        /\ \A i \in 1..Len(svg) : svg[i].k = TargetsOnScreen[i].k
        /\ \A k \in {"Na", "K", "iCa", "Mg", "Cl", "Lactate", "HCO3", "Alb",
                      "Phos", "Unknown"} :
             prevRects(svg, k).has <=> \E j \in 1..Len(TargetsOnScreen) :
                                         TargetsOnScreen[j].k = k)
  /\ [][renders' # renders =>
          LET anim == pending'[Len(pending')].anim
          IN \A i \in 1..Len(anim) :
               (\A j \in 1..Len(TargetsOnScreen) :
                   TargetsOnScreen[j].k # TargetsOnScreen'[i].k) =>
                 /\ anim[i].sH = DefaultExtent * SCALE
                 /\ anim[i].sY = (BaseY - DefaultExtent) * SCALE]_vars

\* The form is back at its loaded values after two renders, the first of
\* which took the Unknown segment (drawn on load) away: the third render
\* draws it again, from the default.
Wit_C27 ==
  /\ renders = 3
  /\ picker = LoadedPicker
  /\ pending # <<>>
  /\ Tween.elapsed = 0
  /\ \E j \in 1..Len(LoadedTargets) : LoadedTargets[j].k = "Unknown"
  /\ \E i \in 1..Len(svg) :
       /\ svg[i].k = "Unknown"
       /\ Tween.anim[i].sH = DefaultExtent * SCALE
       /\ Tween.anim[i].sY = (BaseY - DefaultExtent) * SCALE

\* C28: at most one rectangle is active, the chart carries "focused"
\* exactly while one is, and the tooltip is visible only while one is.
Claim_C28 ==
  /\ Cardinality(active) <= 1
  /\ focused <=> active # {}
  /\ ttVisible => active # {}

\* C29: a change of a picker's value (no unit change, no checkbox, no
\* reset) calls computeAll exactly once, however often populatePicker has
\* run on that picker.
Claim_C29 ==
  [][(picker' # picker /\ unit' = unit /\ useBmp' = useBmp /\ listeners' = listeners)
       => renders' = renders + 1]_vars

\* C30: the displayed SIG differs from displayed SIDa minus displayed SIDe
\* by at most 0.1, and the rounded SIG handed to the Gamblegram differs
\* from the unrounded SIG by at most 0.05.
Thm_C30 ==
  Present(res.sig) =>
    /\ Abs(res.sigR - (res.sidAR - res.sidER)) <= SCALE \div 10
    /\ Abs(res.sigR - res.sig) <= SCALE \div 20
    /\ res.sigR % (SCALE \div 10) = 0

\* The three roundings disagree: displayed SIG is not displayed SIDa minus
\* displayed SIDe.
Wit_C30 ==
  /\ Present(res.sig)
  /\ res.sigR # res.sidAR - res.sidER
  /\ res.sigR # res.sig

====
